---- MODULE Spec2Model ----
(***************************************************************************)
(* The interpretation-request orchestration layer of zi-wi: the fixed      *)
(* window rate limiter (lib/rateLimit), the retry executor (lib/retry),    *)
(* the in-process LRU cache (lib/cache) and the interpret POST handler     *)
(* (app/api/interpret/route.ts) that composes them with the persistent     *)
(* store and the narrative generator.                                      *)
(*                                                                         *)
(* The specifications of the module:                                       *)
(*   SpecRL         checkRateLimit, the clock and the background sweep     *)
(*   SpecRetry      one withRetry call, attempt by attempt                 *)
(*   FairSpecRetry  SpecRetry with every attempt and delay settling        *)
(*   Spec           the interpret POST handler, one step per await         *)
(*   SpecClassify   isRetryableError applied to one error                  *)
(*   SpecFallback   one callOpenAIWithFallback call, attempt by attempt    *)
(*   SpecLRU        one LRUCache instance, call by call                    *)
(*   SpecCacheKey   generateCacheKey applied to one object in two orders   *)
(*   SpecSweep      checkRateLimit on a swept and on a never swept store   *)
(*   SpecOverlap    two interpret requests handled at once                 *)
(*   SpecWarmStore  Spec, started with the interpretation in the store     *)
(*   SpecCleanup    one LRUCache with cleanup next to one without          *)
(*   SpecKeyPairs   generateCacheKey applied to two argument lists         *)
(*   SpecTimers     startCacheCleanup, stopCacheCleanup and the timer      *)
(***************************************************************************)
EXTENDS Integers, Sequences, FiniteSets, TLC

VARIABLES
    now,             \* Date.now()
    rateLimitStore,  \* rateLimit: Map<string, RateLimitRecord>
    rlCall,          \* the latest checkRateLimit call: its arguments, result, record before and after
    rlPolicy,        \* the RateLimitConfig the callers of SpecRL pass
    winOpen,         \* per key: the time of the call that opened the current fixed window
    winCalls,        \* per key: the number of calls made inside the current fixed window
    fullConfig,      \* withRetry: { ...DEFAULT_RETRY_CONFIG, ...config }
    rpc,             \* withRetry: where the call stands: "start", "attempting", "waiting", "done"
    attempt,         \* withRetry: the loop variable
    lastError,       \* withRetry: let lastError
    fnCalls,         \* withRetry: how many times fn() has been invoked
    attemptLog,      \* withRetry: the outcome of every attempt, in order
    delayLog,        \* withRetry: every delay(delayMs) taken, in order
    retryResult,     \* withRetry: what the call returned or threw
    interpretCache,  \* cache: the Map of interpretCache, oldest entry first
    interpretations, \* the persistent store's table of cached interpretations
    pendingSaves,    \* saveInterpretation calls in flight
    isSupabaseConfigured, \* supabase: both environment variables are set
    apiKey,          \* llm: getLLMConfig().apiKey is set
    req,             \* the interpret requests being handled, by slot
    concurrency,     \* how many requests the server handles at once
    computedAt,      \* per memory key: when a request last stored a result it had computed from generated text
    backfilledAt,    \* per memory key: when a request last stored a row it had found in the persistent store
    probe,           \* a pure function under test: its latest arguments and what it returned
    lru,             \* an LRUCache under test: maxSize, defaultTTL and the Map, oldest entry first
    lruHist,         \* the LRUCache under test: its latest call, and per key when it was last set or hit
    fb,              \* one callOpenAIWithFallback call: the chain, where it stands, what it invoked
    shadow,          \* the same calls made on a store that no background sweep ever touches
    timers           \* cache: let cleanupInterval, and the interval timers of the process

rlVars == <<now, rateLimitStore, rlCall, rlPolicy, winOpen, winCalls>>

retryVars == <<fullConfig, rpc, attempt, lastError, fnCalls, attemptLog, delayLog, retryResult>>

postVars == <<interpretCache, interpretations, pendingSaves, isSupabaseConfigured, apiKey, req,
              concurrency, computedAt, backfilledAt>>

extVars == <<probe, lru, lruHist, fb, shadow, timers>>

vars == <<now, rateLimitStore, rlCall, rlPolicy, winOpen, winCalls,
          fullConfig, rpc, attempt, lastError, fnCalls, attemptLog, delayLog, retryResult,
          interpretCache, interpretations, pendingSaves, isSupabaseConfigured, apiKey, req,
          concurrency, computedAt, backfilledAt,
          probe, lru, lruHist, fb, shadow, timers>>

\* the value of an optional number that is not set (retryAfter?: number)
Undefined == 0 - 1

Min(a, b) == IF a <= b THEN a ELSE b

\* Math.ceil(a / b) for b > 0
Ceil(a, b) == 0 - ((0 - a) \div b)

\* an empty Map
EmptyMap == [k \in {} |-> 0]

\* Map.set(key, value)
MapSet(m, key, value) == [k \in (DOMAIN m) \cup {key} |-> IF k = key THEN value ELSE m[k]]

\* Map.delete(key) for every key of a set
MapDelete(m, keys) == [k \in (DOMAIN m) \ keys |-> m[k]]

(***************************************************************************)
(* The retry executor                                                      *)
(***************************************************************************)

\* an error value: its class, statusCode, retryable flag (APIError), retryAfter and message words
Err(cls, statusCode, retryable, retryAfter, message) ==
    [cls |-> cls, statusCode |-> statusCode, retryable |-> retryable,
     retryAfter |-> retryAfter, message |-> message]

\* new RetryableError(message, statusCode)
RetryableError(statusCode) == Err("RetryableError", statusCode, FALSE, Undefined, <<"server", "error">>)

\* new RateLimitError(retryAfter): a RetryableError with statusCode 429
RateLimitError(retryAfter) == Err("RateLimitError", 429, FALSE, retryAfter, <<"rate", "limit">>)

\* new APIError(message, statusCode, code, retryable)
APIError(statusCode, retryable) == Err("APIError", statusCode, retryable, Undefined, <<"api", "error">>)

\* new Error(message), and an Error given a statusCode property
PlainError(statusCode) == Err("Error", statusCode, FALSE, Undefined, <<"non-retryable">>)

\* the TypeError fetch rejects with on a network failure
FetchTypeError == Err("TypeError", Undefined, FALSE, Undefined, <<"fetch", "failed">>)

\* what the timer of an attempt rejects with: new Error(message), the message saying
\* the request timed out
TimeoutError == Err("Error", Undefined, FALSE, Undefined, <<"request", "timeout">>)

\* no error caught yet: let lastError: unknown
NoError == Err("undefined", Undefined, FALSE, Undefined, <<>>)

\* String.prototype.includes, on a message held as its words
Includes(message, word) == \E i \in DOMAIN message : message[i] = word

\* error instanceof RetryableError (RateLimitError extends RetryableError)
IsRetryableErrorInstance(error) == error.cls \in {"RetryableError", "RateLimitError"}

\* function isRetryableError(error)
isRetryableError(error) ==
    IF IsRetryableErrorInstance(error) THEN TRUE
    ELSE IF error.cls = "APIError" THEN error.retryable
    ELSE IF error.cls \in {"Error", "TypeError"} /\ error.statusCode # Undefined
         THEN error.statusCode >= 500 \/ error.statusCode = 429 \/ error.statusCode = 408
    ELSE IF error.cls = "TypeError" /\ Includes(error.message, "fetch") THEN TRUE
    ELSE FALSE

RECURSIVE Pow(_, _)
\* Math.pow(b, n) for a natural n
Pow(b, n) == IF n = 0 THEN 1 ELSE b * Pow(b, n - 1)

\* the values of Math.random() the model draws, in tenths
RandomTenths == {0, 9}

\* a backoff that takes the server's hint without the cap of maxDelayMs
calculateBackoff_Mutant(n, config, retryAfter) ==
    IF retryAfter # Undefined /\ retryAfter > 0
    THEN { retryAfter * 1000 }
    ELSE LET exponentialDelay == config.initialDelayMs * Pow(config.backoffMultiplier, n) IN
         { Min(exponentialDelay + (r * 3 * exponentialDelay) \div 100, config.maxDelayMs) :
             r \in RandomTenths }

\* function calculateBackoff(attempt, config, retryAfter): the delays it can return
calculateBackoff(n, config, retryAfter) ==
    IF retryAfter # Undefined /\ retryAfter > 0
    THEN { Min(retryAfter * 1000, config.maxDelayMs) }
    ELSE LET exponentialDelay == config.initialDelayMs * Pow(config.backoffMultiplier, n) IN
         { Min(exponentialDelay + (r * 3 * exponentialDelay) \div 100, config.maxDelayMs) :
             r \in RandomTenths }

\* the largest maxRetries among the configurations of SpecRetry
MaxRetriesBound == 2

\* DEFAULT_RETRY_CONFIG.initialDelayMs
DefaultInitialDelayMs == 1000

\* DEFAULT_RETRY_CONFIG.backoffMultiplier
DefaultBackoffMultiplier == 2

\* DEFAULT_RETRY_CONFIG.timeoutMs
DefaultTimeoutMs == 30000

\* maxDelayMs as callOpenAIWithFallback passes it
FallbackMaxDelayMs == 5000

\* the configurations withRetry runs under: timeoutMs 0 takes the branch without a timer
RetryConfigs ==
    { [maxRetries |-> m, initialDelayMs |-> DefaultInitialDelayMs, maxDelayMs |-> FallbackMaxDelayMs,
       backoffMultiplier |-> DefaultBackoffMultiplier, timeoutMs |-> t] :
        m \in 0..MaxRetriesBound, t \in {0, DefaultTimeoutMs} }

\* the errors fn() can reject with
OperationErrors ==
    { RetryableError(500), RateLimitError(60), RateLimitError(2), RateLimitError(0),
      APIError(400, FALSE), APIError(500, TRUE),
      PlainError(Undefined), PlainError(503), PlainError(404), FetchTypeError }

\* how one attempt can settle: fn() resolves, fn() rejects, or the timer fires first
AttemptOutcomes(config) ==
    { [kind |-> "success", error |-> NoError] }
    \cup { [kind |-> "failure", error |-> e] : e \in OperationErrors }
    \cup (IF config.timeoutMs # 0 THEN { [kind |-> "timeout", error |-> TimeoutError] } ELSE {})

\* for (...; attempt <= fullConfig.maxRetries; ...)
LoopCondition(n, config) == n <= config.maxRetries

\* if (attempt >= fullConfig.maxRetries || !isRetryableError(error)) throw error
ShouldThrow_Mutant(n, config, error) == n >= config.maxRetries

ShouldThrow(n, config, error) == n >= config.maxRetries \/ ~isRetryableError(error)

\* attempt++
NextAttempt_Mutant(n) == n

NextAttempt(n) == n + 1

\* error instanceof RetryableError ? error.retryAfter : undefined
RetryAfterOf(error) == IF IsRetryableErrorInstance(error) THEN error.retryAfter ELSE Undefined

NoResult == [kind |-> "none", error |-> NoError]

\* no withRetry call is running
RetryIdle ==
    /\ fullConfig = [maxRetries |-> 0, initialDelayMs |-> 0, maxDelayMs |-> 0,
                     backoffMultiplier |-> 0, timeoutMs |-> 0]
    /\ rpc = "idle"
    /\ attempt = 0
    /\ lastError = NoError
    /\ fnCalls = 0
    /\ attemptLog = <<>>
    /\ delayLog = <<>>
    /\ retryResult = NoResult


(***************************************************************************)
(* The LRU cache and the values the interpret handler works on             *)
(***************************************************************************)

\* LRUCache.get returns undefined
NoValue == [kind |-> "undefined"]

\* the position of a key in the Map, 0 when the Map does not hold it
LRUIndex(cache, key) ==
    IF \E i \in DOMAIN cache : cache[i].key = key
    THEN CHOOSE i \in DOMAIN cache : cache[i].key = key
    ELSE 0

\* this.cache.delete(key)
LRURemove(cache, key) == SelectSeq(cache, LAMBDA e : e.key # key)

\* Date.now() > entry.expiresAt
Expired_Mutant(entry, t) == t >= entry.expiresAt

Expired(entry, t) == t > entry.expiresAt

\* LRUCache.get(key) at time t: the Map it leaves and the value it returns
LRUGet(cache, key, t) ==
    LET i == LRUIndex(cache, key) IN
    IF i = 0 THEN [cache |-> cache, value |-> NoValue]
    ELSE IF Expired(cache[i], t) THEN [cache |-> LRURemove(cache, key), value |-> NoValue]
    ELSE [cache |-> Append(LRURemove(cache, key), cache[i]), value |-> cache[i].value]

\* LRUCache.set(key, value, ttl) at time t, ttl = 0 standing for an omitted ttl
LRUSet(cache, maxSize, defaultTTL, key, value, ttl, t) ==
    LET removed == LRURemove(cache, key)
        evicted == IF Len(removed) >= maxSize /\ Len(removed) > 0 /\ removed[1].key # ""
                   THEN Tail(removed) ELSE removed
        expiresAt == t + (IF ttl # 0 THEN ttl ELSE defaultTTL)
    IN Append(evicted, [key |-> key, value |-> value, expiresAt |-> expiresAt])

\* LRUCache.cleanup() at time t: the Map it leaves
LRUCleanup(cache, t) == SelectSeq(cache, LAMBDA e : ~Expired(e, t))

\* new LRUCache<any>(50, 5 * 60 * 1000): maxSize of interpretCache
InterpretCacheMaxSize == 50

\* new LRUCache<any>(50, 5 * 60 * 1000): defaultTTL of interpretCache
InterpretCacheDefaultTTL == 300000

\* interpretCache.set(memoryCacheKey, result, 5 * 60 * 1000)
MemoryTtlMs == 300000

\* RATE_LIMIT_CONFIGS.interpret.windowMs
InterpretWindowMs == 60000

\* RATE_LIMIT_CONFIGS.interpret.maxRequests
InterpretMaxRequests == 10

\* RATE_LIMIT_CONFIGS.interpret
InterpretPolicy ==
    [keyPrefix |-> "interpret", windowMs |-> InterpretWindowMs, maxRequests |-> InterpretMaxRequests]

\* fortune: null in the request body
NullFortune ==
    [isNull |-> TRUE, scope |-> "", hasDecade |-> FALSE, decadeStart |-> Undefined,
     decadeEnd |-> Undefined, year |-> Undefined, month |-> Undefined, day |-> Undefined]

\* a FortuneData of the request body, the fields the handler reads
Fortune(scope, year, month, day) ==
    [isNull |-> FALSE, scope |-> scope, hasDecade |-> FALSE, decadeStart |-> Undefined,
     decadeEnd |-> Undefined, year |-> year, month |-> month, day |-> day]

\* String(n) of `${n || 0}`
OrZero(n) == IF n = Undefined THEN "0" ELSE ToString(n)

RECURSIVE JoinColon(_)
\* data.join(':')
JoinColon(data) ==
    IF data = <<>> THEN ""
    ELSE IF Len(data) = 1 THEN data[1]
    ELSE data[1] \o ":" \o JoinColon(Tail(data))

\* an argument of generateCacheKey that is a string
StringArg(s) == [type |-> "string", str |-> s]

\* an argument of generateCacheKey that is a number
NumberArg(n) == [type |-> "number", num |-> n]

\* an argument of generateCacheKey that is an object: its own properties in the order
\* they were inserted, [name, value] for a number and [name, object] for a nested object
ObjectArg(props) == [type |-> "object", props |-> props]

\* the property names the objects use, in the order Array.prototype.sort() puts them
PropNameOrder == <<"a", "b", "c">>

\* Object.keys(arg): the names in insertion order
ObjectKeys(props) == [i \in DOMAIN props |-> props[i].name]

\* Object.keys(arg) used as it is, unsorted
SortedKeys_Mutant(keys) == keys

\* Object.keys(arg).sort()
SortedKeys(keys) == SelectSeq(PropNameOrder, LAMBDA k : \E i \in DOMAIN keys : keys[i] = k)

RECURSIVE JoinComma(_)
\* the members of a serialized object, separated by commas
JoinComma(members) ==
    IF members = <<>> THEN ""
    ELSE IF Len(members) = 1 THEN members[1]
    ELSE members[1] \o "," \o JoinComma(Tail(members))

RECURSIVE JSONStringify(_, _)
\* JSON.stringify(arg, replacer) with an array replacer: the properties of arg that the
\* array names, in the order of the array; the array selects the properties of the nested
\* objects as well
JSONStringify(props, replacer) ==
    LET listed == SelectSeq(replacer, LAMBDA k : \E i \in DOMAIN props : props[i].name = k)
        prop(k) == props[CHOOSE i \in DOMAIN props : props[i].name = k]
        valueOf(k) == IF "object" \in DOMAIN prop(k)
                      THEN JSONStringify(prop(k).object, replacer)
                      ELSE ToString(prop(k).value)
        members == [i \in DOMAIN listed |-> "\"" \o listed[i] \o "\":" \o valueOf(listed[i])]
    IN "{" \o JoinComma(members) \o "}"

\* the callback of args.map in generateCacheKey
StringifyArg(arg) ==
    IF arg.type = "object" THEN JSONStringify(arg.props, SortedKeys(ObjectKeys(arg.props)))
    ELSE IF arg.type = "number" THEN ToString(arg.num)
    ELSE arg.str

\* generateCacheKey(prefix, ...args)
generateCacheKey(prefix, args) ==
    prefix \o ":" \o JoinColon([i \in DOMAIN args |-> StringifyArg(args[i])])

\* buildInterpretCacheKey(astrolabe, fortune)
buildInterpretCacheKey(chartId, fortune) ==
    IF fortune.isNull \/ fortune.scope = "natal"
    THEN generateCacheKey("interpret", <<StringArg(chartId), StringArg("natal")>>)
    ELSE LET decadeKey == IF fortune.hasDecade
                          THEN ToString(fortune.decadeStart) \o "-" \o ToString(fortune.decadeEnd)
                          ELSE "nodecade"
             fortuneKey == fortune.scope \o "-" \o decadeKey \o "-" \o OrZero(fortune.year)
                           \o "-" \o OrZero(fortune.month) \o "-" \o OrZero(fortune.day)
         IN generateCacheKey("interpret", <<StringArg(chartId), StringArg(fortuneKey)>>)

\* getFortuneScope(fortune)
getFortuneScope(fortune) == IF fortune.isNull \/ fortune.scope = "" THEN "natal" ELSE fortune.scope

\* buildFortuneParams(fortune)
buildFortuneParams(fortune) ==
    IF fortune.isNull
    THEN [scope |-> "natal", year |-> Undefined, month |-> Undefined, day |-> Undefined,
          hasDecade |-> FALSE, decadeStart |-> Undefined, decadeEnd |-> Undefined]
    ELSE [scope |-> fortune.scope, year |-> fortune.year, month |-> fortune.month, day |-> fortune.day,
          hasDecade |-> fortune.hasDecade, decadeStart |-> fortune.decadeStart,
          decadeEnd |-> fortune.decadeEnd]

\* the row of the interpretations table a request reads and writes:
\* UNIQUE(chart_id, fortune_scope, fortune_params)
StoreKey(chartId, fortune) == <<chartId, getFortuneScope(fortune), buildFortuneParams(fortune)>>

\* the request bodies clients send: a well-formed one, one without astrolabe, one that is not JSON
RequestBodies ==
    { [kind |-> "ok", chartId |-> "chart1", fortune |-> NullFortune],
      [kind |-> "noAstrolabe", chartId |-> "", fortune |-> NullFortune],
      [kind |-> "invalidJson", chartId |-> "", fortune |-> NullFortune] }

\* parseLLMResponse(content): an InterpretResult made from generated text
ParsedResult == [kind |-> "parsed"]

\* getDefaultResult(errorMessage): an InterpretResult whose every field is an error message
DefaultResult == [kind |-> "default"]

\* process.env.OPENAI_MODEL || 'gpt-4o-mini'
DefaultModel == "gpt-4o-mini"

\* const MODEL_FALLBACK_ORDER
MODEL_FALLBACK_ORDER == <<"gpt-4o-mini", "gpt-3.5-turbo">>

RECURSIVE PushMissing_Mutant(_, _)
\* a loop that puts each missing fallback model right behind the preferred one
PushMissing_Mutant(models, fallbacks) ==
    IF fallbacks = <<>> THEN models
    ELSE PushMissing_Mutant(IF \E i \in DOMAIN models : models[i] = Head(fallbacks)
                            THEN models ELSE <<models[1], Head(fallbacks)>> \o Tail(models),
                            Tail(fallbacks))

RECURSIVE PushMissing(_, _)
\* for (const fallbackModel of MODEL_FALLBACK_ORDER) if (!models.includes(fallbackModel)) models.push(fallbackModel)
PushMissing(models, fallbacks) ==
    IF fallbacks = <<>> THEN models
    ELSE PushMissing(IF \E i \in DOMAIN models : models[i] = Head(fallbacks)
                     THEN models ELSE Append(models, Head(fallbacks)),
                     Tail(fallbacks))

\* the model list callOpenAIWithFallback builds
ModelChain_Mutant(model) == <<model>> \o MODEL_FALLBACK_ORDER

ModelChain(model) == PushMissing(<<model>>, MODEL_FALLBACK_ORDER)

\* maxRetries as callOpenAIWithFallback passes it
FallbackMaxRetries == 2

\* the RetryConfig callOpenAIWithFallback runs withRetry under
FallbackRetryConfig ==
    [maxRetries |-> FallbackMaxRetries, initialDelayMs |-> DefaultInitialDelayMs,
     maxDelayMs |-> FallbackMaxDelayMs, backoffMultiplier |-> DefaultBackoffMultiplier,
     timeoutMs |-> DefaultTimeoutMs]

\* the request slots: how many interpret requests can be handled at once
MaxInFlight == 2

Slots == 1..MaxInFlight

NoResponse == [status |-> 0, source |-> "", body |-> NoValue, retryAfter |-> Undefined]

\* a slot that handles no request. allowed: what checkRateLimit answered for the request;
\* issued: the request arrived after a generated result was stored under its key and no later
\* than MemoryTtlMs after that; repeat: it also read the memory cache no later than that
IdleRequest ==
    [pc |-> "idle", body |-> [kind |-> "none", chartId |-> "", fortune |-> NullFortune],
     memoryCacheKey |-> "", allowed |-> FALSE, log |-> <<>>, model |-> 0, attempt |-> 0,
     exhausted |-> FALSE, issued |-> FALSE, repeat |-> FALSE,
     afterFill |-> FALSE, readAfterFill |-> FALSE, backfill |-> [at |-> Undefined],
     response |-> NoResponse]

\* the memory keys of the well-formed request bodies
MemoryKeys == { buildInterpretCacheKey(b.chartId, b.fortune) : b \in { x \in RequestBodies : x.kind = "ok" } }

\* no interpret request is being handled
PostIdle ==
    /\ interpretCache = <<>>
    /\ interpretations = EmptyMap
    /\ pendingSaves = {}
    /\ isSupabaseConfigured = FALSE
    /\ apiKey = FALSE
    /\ req = [r \in Slots |-> IdleRequest]
    /\ concurrency = 0
    /\ computedAt = [k \in MemoryKeys |-> Undefined]
    /\ backfilledAt = [k \in MemoryKeys |-> Undefined]

\* cache: cleanupInterval is null (0) and setInterval has not been called. active are the
\* interval timers of the process that are not cleared, created counts the setInterval calls,
\* call and before are the latest call on the timer and the timers it found active
NoTimers == [cleanupInterval |-> 0, active |-> {}, created |-> 0, call |-> "none", before |-> {}]

\* no pure function has been applied, no LRUCache is under test, no fallback call is running
BgIdle ==
    /\ shadow = [of |-> "none"]
    /\ timers = NoTimers

ExtIdle ==
    /\ BgIdle
    /\ probe = [fn |-> "none"]
    /\ lru = [maxSize |-> 0, defaultTTL |-> 0, map |-> <<>>]
    /\ lruHist = [op |-> "none"]
    /\ fb = [pc |-> "idle"]

(***************************************************************************)
(* The rate limiter                                                        *)
(***************************************************************************)

\* the largest maxRequests among the policies of SpecRL
MaxRequestsBound == 2

\* the last instant of the clock of SpecRL
MaxNow == 5

\* the calls made to one key inside one window are capped at this many
MaxCallsInWindow == 4

\* the window lengths of the policies of SpecRL
WindowChoices == {1, 2}

\* client identities: an address taken from a proxy header, or the 'unknown' bucket
Identities == {"unknown", "10.0.0.1"}

\* the RateLimitConfig values of SpecRL: one policy per keyPrefix, as in RATE_LIMIT_CONFIGS
Policies ==
    { [keyPrefix |-> "api" \o ToString(n) \o "w" \o ToString(w), windowMs |-> w, maxRequests |-> n] :
        n \in 0..MaxRequestsBound, w \in WindowChoices }

\* const key = `${keyPrefix}:${identifier}`
RateLimitKey(keyPrefix, identifier) == keyPrefix \o ":" \o identifier

AllKeys == { RateLimitKey(p.keyPrefix, id) : p \in Policies, id \in Identities }

\* the policy whose keyPrefix a key was built from
PolicyOfKey(key) ==
    CHOOSE p \in Policies : \E id \in Identities : key = RateLimitKey(p.keyPrefix, id)

\* if (!record || record.resetTime < now)
WindowElapsed(store, key, t) == key \notin DOMAIN store \/ store[key].resetTime < t

\* if (record.count >= maxRequests)
OverLimit(record, maxRequests) == record.count >= maxRequests

\* checkRateLimit(identifier, config) at time t: the store it leaves and the result it returns
checkRateLimit(store, identifier, config, t) ==
    LET key == RateLimitKey(config.keyPrefix, identifier) IN
    IF WindowElapsed(store, key, t)
    THEN LET record == [count |-> 1, resetTime |-> t + config.windowMs] IN
         [store  |-> MapSet(store, key, record),
          result |-> [allowed |-> TRUE, remaining |-> config.maxRequests - 1,
                      resetTime |-> record.resetTime, retryAfter |-> Undefined]]
    ELSE IF OverLimit(store[key], config.maxRequests)
    THEN [store  |-> store,
          result |-> [allowed |-> FALSE, remaining |-> 0,
                      resetTime |-> store[key].resetTime,
                      retryAfter |-> Ceil(store[key].resetTime - t, 1000)]]
    ELSE LET record == [count |-> store[key].count + 1, resetTime |-> store[key].resetTime] IN
         [store  |-> MapSet(store, key, record),
          result |-> [allowed |-> TRUE, remaining |-> config.maxRequests - record.count,
                      resetTime |-> record.resetTime, retryAfter |-> Undefined]]

\* a sweep that also deletes the records whose resetTime is now
SweepRateLimitStore_Mutant(store, t) ==
    MapDelete(store, { k \in DOMAIN store : store[k].resetTime <= t })

\* the callback of startCleanupTimer: delete every record whose resetTime < now
SweepRateLimitStore(store, t) ==
    MapDelete(store, { k \in DOMAIN store : store[k].resetTime < t })

NoCall == [kind |-> "none"]

\* a fixed window opens with the first call and covers the instants up to open + windowMs
InOpenWindow(key, config, t) ==
    winOpen[key] # Undefined /\ t <= winOpen[key] + config.windowMs

InitRL ==
    /\ ExtIdle
    /\ now = 0
    /\ rlPolicy \in Policies
    /\ rateLimitStore = EmptyMap
    /\ rlCall = NoCall
    /\ winOpen = [k \in AllKeys |-> Undefined]
    /\ winCalls = [k \in AllKeys |-> 0]
    /\ RetryIdle
    /\ PostIdle

\* one call of checkRateLimit
RLCheck(identifier, config) ==
    LET key == RateLimitKey(config.keyPrefix, identifier)
        out == checkRateLimit(rateLimitStore, identifier, config, now)
    IN
    /\ InOpenWindow(key, config, now) => winCalls[key] < MaxCallsInWindow
    /\ rateLimitStore' = out.store
    /\ rlCall' = [kind |-> "call", key |-> key, config |-> config, at |-> now,
                  had |-> key \in DOMAIN rateLimitStore,
                  before |-> IF key \in DOMAIN rateLimitStore THEN rateLimitStore[key]
                             ELSE [count |-> 0, resetTime |-> 0],
                  after |-> out.store[key],
                  changed |-> { k \in DOMAIN rateLimitStore :
                                  k # key /\ (k \notin DOMAIN out.store \/ out.store[k] # rateLimitStore[k]) },
                  result |-> out.result]
    /\ IF InOpenWindow(key, config, now)
       THEN /\ winCalls' = [winCalls EXCEPT ![key] = @ + 1]
            /\ UNCHANGED winOpen
       ELSE /\ winCalls' = [winCalls EXCEPT ![key] = 1]
            /\ winOpen' = [winOpen EXCEPT ![key] = now]
    /\ UNCHANGED <<now, rlPolicy>>
    /\ UNCHANGED retryVars
    /\ UNCHANGED extVars
    /\ UNCHANGED postVars

\* the clock moves on
RLTick ==
    /\ now < MaxNow
    /\ now' = now + 1
    /\ UNCHANGED <<rateLimitStore, rlCall, rlPolicy, winOpen, winCalls>>
    /\ UNCHANGED retryVars
    /\ UNCHANGED extVars
    /\ UNCHANGED postVars

\* the interval timer of startCleanupTimer fires
RLSweep ==
    /\ rateLimitStore' = SweepRateLimitStore(rateLimitStore, now)
    /\ rateLimitStore' # rateLimitStore
    /\ UNCHANGED <<now, rlCall, rlPolicy, winOpen, winCalls>>
    /\ UNCHANGED retryVars
    /\ UNCHANGED extVars
    /\ UNCHANGED postVars

NextRL ==
    \/ \E id \in Identities : RLCheck(id, rlPolicy)
    \/ RLTick
    \/ RLSweep

SpecRL == InitRL /\ [][NextRL]_vars

\* C1: for a policy with maxRequests = N and one (keyPrefix, identity), the calls of one
\* fixed window are allowed up to the Nth and rejected from the (N+1)th on, a rejection
\* reporting remaining = 0; and a call made after the stored record's resetTime has
\* passed is allowed and leaves the fresh record count = 1, resetTime = now + windowMs.
C1_WindowCorrectness ==
    rlCall.kind = "call" =>
        LET N == rlCall.config.maxRequests
            k == winCalls[rlCall.key]
        IN
        /\ k <= N => rlCall.result.allowed
        /\ k > N => (~rlCall.result.allowed /\ rlCall.result.remaining = 0)
        /\ (rlCall.had /\ rlCall.before.resetTime < rlCall.at) =>
               /\ rlCall.result.allowed
               /\ rlCall.after = [count |-> 1, resetTime |-> rlCall.at + rlCall.config.windowMs]

\* C2: every stored record has count <= maxRequests of its policy, whatever
\* non-negative maxRequests the policy has.
C2_CountWithinMax ==
    \A key \in DOMAIN rateLimitStore :
        rateLimitStore[key].count <= PolicyOfKey(key).maxRequests

(***************************************************************************)
(* One withRetry call                                                      *)
(***************************************************************************)

RLIdle ==
    /\ now = 0
    /\ rlPolicy = [keyPrefix |-> "", windowMs |-> 0, maxRequests |-> 0]
    /\ rateLimitStore = EmptyMap
    /\ rlCall = NoCall
    /\ winOpen = [k \in AllKeys |-> Undefined]
    /\ winCalls = [k \in AllKeys |-> 0]

InitRetry ==
    /\ ExtIdle
    /\ fullConfig \in RetryConfigs
    /\ rpc = "start"
    /\ attempt = 0
    /\ lastError = NoError
    /\ fnCalls = 0
    /\ attemptLog = <<>>
    /\ delayLog = <<>>
    /\ retryResult = NoResult
    /\ RLIdle
    /\ PostIdle

\* throw error, in the catch block of withRetry
ThrowError_Mutant(error) ==
    [kind |-> "throw", error |-> IF attemptLog = <<>> THEN error ELSE attemptLog[1].error]

ThrowError(error) == [kind |-> "throw", error |-> error]

\* enter the loop body and invoke fn(), or leave the loop and throw lastError
EnterLoop(n) ==
    IF LoopCondition(n, fullConfig)
    THEN /\ rpc' = "attempting"
         /\ fnCalls' = fnCalls + 1
         /\ UNCHANGED retryResult
    ELSE /\ rpc' = "done"
         /\ retryResult' = [kind |-> "throw", error |-> lastError]
         /\ UNCHANGED fnCalls

\* withRetry is called: attempt = 0
RetryStart ==
    /\ rpc = "start"
    /\ EnterLoop(0)
    /\ UNCHANGED <<fullConfig, attempt, lastError, attemptLog, delayLog>>
    /\ UNCHANGED rlVars
    /\ UNCHANGED postVars
    /\ UNCHANGED extVars

\* the attempt settles: return the result, throw the error, or start the backoff delay
RetrySettle(outcome) ==
    /\ rpc = "attempting"
    /\ attemptLog' = Append(attemptLog, outcome)
    /\ IF outcome.kind = "success"
       THEN /\ rpc' = "done"
            /\ retryResult' = [kind |-> "return", error |-> NoError]
            /\ UNCHANGED <<lastError, delayLog>>
       ELSE /\ lastError' = outcome.error
            /\ IF ShouldThrow(attempt, fullConfig, outcome.error)
               THEN /\ rpc' = "done"
                    /\ retryResult' = ThrowError(outcome.error)
                    /\ UNCHANGED delayLog
               ELSE /\ rpc' = "waiting"
                    /\ \E delayMs \in calculateBackoff(attempt, fullConfig, RetryAfterOf(outcome.error)) :
                           delayLog' = Append(delayLog, delayMs)
                    /\ UNCHANGED retryResult
    /\ UNCHANGED <<fullConfig, attempt, fnCalls>>
    /\ UNCHANGED rlVars
    /\ UNCHANGED postVars
    /\ UNCHANGED extVars

\* await delay(delayMs) resolves: the next iteration of the loop
RetryDelayElapsed ==
    /\ rpc = "waiting"
    /\ attempt' = NextAttempt(attempt)
    /\ EnterLoop(NextAttempt(attempt))
    /\ UNCHANGED <<fullConfig, lastError, attemptLog, delayLog>>
    /\ UNCHANGED rlVars
    /\ UNCHANGED postVars
    /\ UNCHANGED extVars

NextRetry ==
    \/ RetryStart
    \/ \E outcome \in AttemptOutcomes(fullConfig) : RetrySettle(outcome)
    \/ RetryDelayElapsed

SpecRetry == InitRetry /\ [][NextRetry]_vars

\* every attempt settles or is cut off by its timer, and every delay timer fires
FairSpecRetry == SpecRetry /\ WF_vars(NextRetry)

\* an attempt outcome that is a failure the classifier does not retry
IsFatal(outcome) == outcome.kind = "failure" /\ ~isRetryableError(outcome.error)

\* C8: one withRetry call with maxRetries = m >= 0 terminates, invokes the operation at
\* least once and at most m + 1 times, and with m = 0 invokes it exactly once.
C8_BoundedInvocations ==
    /\ [](fnCalls <= fullConfig.maxRetries + 1)
    /\ [](rpc = "done" => fnCalls >= 1)
    /\ []((rpc = "done" /\ fullConfig.maxRetries = 0) => fnCalls = 1)
    /\ <>(rpc = "done")

\* a call with maxRetries >= 1 ended after using every one of its maxRetries + 1 attempts
C8_Witness ==
    /\ rpc = "done"
    /\ fullConfig.maxRetries >= 1
    /\ fnCalls = fullConfig.maxRetries + 1
    /\ retryResult.kind = "throw"

\* C9: an attempt that fails with a fatal (non-retryable) error ends the call at once with
\* that error: it is the last attempt, no delay follows it, and when it is the first
\* attempt the operation was invoked exactly once, whatever maxRetries is.
C9_FatalShortCircuit ==
    \A i \in DOMAIN attemptLog :
        IsFatal(attemptLog[i]) =>
            /\ i = Len(attemptLog)
            /\ rpc = "done"
            /\ retryResult = [kind |-> "throw", error |-> attemptLog[i].error]
            /\ Len(delayLog) = i - 1
            /\ fnCalls = i

\* a call with maxRetries > 0 that a fatal failure of its first attempt ended
C9_Witness ==
    /\ fullConfig.maxRetries > 0
    /\ Len(attemptLog) = 1
    /\ IsFatal(attemptLog[1])
    /\ rpc = "done"
    /\ fnCalls = 1

\* C10: an attempt cut off by its timer while fewer than maxRetries retries have been
\* used does not end the call: withRetry takes a delay and invokes the operation again.
C10_TimeoutIsRetried ==
    \A i \in DOMAIN attemptLog :
        (attemptLog[i].kind = "timeout" /\ i - 1 < fullConfig.maxRetries) =>
            ~(rpc = "done" /\ Len(attemptLog) = i)

\* C12: when a withRetry call fails, the error it throws is the error of the last attempt
\* made, which is also the latest error the call recorded.
C12_ThrowsLastError ==
    (rpc = "done" /\ retryResult.kind = "throw") =>
        /\ attemptLog # <<>>
        /\ attemptLog[Len(attemptLog)].kind # "success"
        /\ retryResult.error = attemptLog[Len(attemptLog)].error
        /\ retryResult.error = lastError

\* a call failed after several attempts whose first and last errors differ
C12_Witness ==
    /\ rpc = "done"
    /\ retryResult.kind = "throw"
    /\ Len(attemptLog) >= 2
    /\ attemptLog[1].error # attemptLog[Len(attemptLog)].error
    /\ retryResult.error = attemptLog[Len(attemptLog)].error

\* the exponential delay of attempt index n with its jitter, capped
ExponentialBackoff(delayMs, n, config) ==
    LET e == config.initialDelayMs * Pow(config.backoffMultiplier, n) IN
    \E jitter \in 0..((3 * e) \div 10) : delayMs = Min(e + jitter, config.maxDelayMs)

\* C23 as stated: every delay is at most maxDelayMs; after a failure that carries a
\* server-suggested delay it is min(suggested delay, maxDelayMs), otherwise it is the
\* capped exponential delay of the attempt index with a jitter of 0 to 0.3 x e.
C23_DelayFollowsHintOrBackoff ==
    \A i \in DOMAIN delayLog :
        LET retryAfter == attemptLog[i].error.retryAfter IN
        /\ delayLog[i] <= fullConfig.maxDelayMs
        /\ IF retryAfter # Undefined
           THEN delayLog[i] = Min(retryAfter * 1000, fullConfig.maxDelayMs)
           ELSE ExponentialBackoff(delayLog[i], i - 1, fullConfig)

\* C23 amended: the same, the hint being followed only when it is a positive number of
\* seconds; a hint of 0 is treated like no hint.
C23_DelayFollowsPositiveHintOrBackoff ==
    \A i \in DOMAIN delayLog :
        LET retryAfter == attemptLog[i].error.retryAfter IN
        /\ delayLog[i] <= fullConfig.maxDelayMs
        /\ IF retryAfter # Undefined /\ retryAfter > 0
           THEN delayLog[i] = Min(retryAfter * 1000, fullConfig.maxDelayMs)
           ELSE ExponentialBackoff(delayLog[i], i - 1, fullConfig)

\* a call that waited after a hint above the cap and then after a failure without a hint
C23_Witness ==
    /\ Len(delayLog) = 2
    /\ attemptLog[1].error = RateLimitError(60)
    /\ delayLog[1] = fullConfig.maxDelayMs
    /\ attemptLog[2].error.retryAfter = Undefined
    /\ delayLog[2] < fullConfig.maxDelayMs

(***************************************************************************)
(* The interpret POST handler                                              *)
(***************************************************************************)

\* the granularity of the clock of Spec, in ms: the memory TTL
TickMs == 300000

\* the clock of Spec stops after this many ticks
MaxTicks == 2

\* new requests arrive only while fewer than this many store writes are in flight
MaxPendingSaves == 1

\* the errors callOpenAIAPI rejects with: a 5xx (retryable) and a 4xx other than 429 (fatal)
GeneratorErrors == { RetryableError(500), APIError(400, FALSE) }

\* how one generator call made under withRetry can settle
GeneratorOutcomes ==
    { [kind |-> "success", error |-> NoError] }
    \cup { [kind |-> "failure", error |-> e] : e \in GeneratorErrors }
    \cup { [kind |-> "timeout", error |-> TimeoutError] }

\* if (!rateLimitResult.allowed) return createRateLimitResponse(rateLimitResult)
Rejected_Mutant(rateLimitResult) == FALSE

Rejected(rateLimitResult) == ~rateLimitResult.allowed

\* createRateLimitResponse(result)
createRateLimitResponse(result) ==
    [status |-> 429, source |-> "", body |-> NoValue, retryAfter |-> result.retryAfter]

\* NextResponse.json({ error }, { status })
ErrorResponse(status) == [status |-> status, source |-> "", body |-> NoValue, retryAfter |-> Undefined]

\* NextResponse.json(result) with the X-Cache-Source header
ResultResponse(result, cacheSource) ==
    [status |-> 200, source |-> cacheSource, body |-> result, retryAfter |-> Undefined]

\* if (memoryCached)
MemoryHit(memoryCached) == memoryCached # NoValue

\* if (!result && isSupabaseConfigured)
ReadsStore_Mutant(memoryCached) == TRUE

ReadsStore(memoryCached) == ~MemoryHit(memoryCached) /\ isSupabaseConfigured

\* what a step of the handler leaves: the request, the memory cache, the writes in flight
Effect(q, cache, saves, computed) ==
    [q |-> q, cache |-> cache, saves |-> saves, computed |-> computed, backfilled |-> backfilledAt]

\* the third tier is done: store the result in the memory cache, start the store write, respond
FinishCompute(q, cache, result) ==
    LET key == q.memoryCacheKey
        written == IF isSupabaseConfigured
                   THEN <<"memory-set", "persistent-write">> ELSE <<"memory-set">>
    IN Effect([q EXCEPT !.pc = "done", !.log = q.log \o written,
                        !.response = ResultResponse(result, "llm")],
              LRUSet(cache, InterpretCacheMaxSize, InterpretCacheDefaultTTL, key, result, MemoryTtlMs, now),
              IF isSupabaseConfigured
              THEN pendingSaves \cup { [key |-> StoreKey(q.body.chartId, q.body.fortune), value |-> result] }
              ELSE pendingSaves,
              IF result.kind = "parsed" THEN [computedAt EXCEPT ![key] = now] ELSE computedAt)

\* callOpenAIAPI is invoked for the model at position m of the chain
InvokeGenerator(q, cache, m, n) ==
    Effect([q EXCEPT !.pc = "generate", !.model = m, !.attempt = n,
                     !.log = Append(q.log, "generator")],
           cache, pendingSaves, computedAt)

\* withRetry threw for the current model: go on to the next model, or throw lastError to
\* callLLM, whose catch block returns getDefaultResult
ModelFailed(q, cache) ==
    IF q.model < Len(ModelChain(DefaultModel))
    THEN InvokeGenerator(q, cache, q.model + 1, 0)
    ELSE FinishCompute([q EXCEPT !.exhausted = TRUE], cache, DefaultResult)

\* a handler that coalesces: while another request generates for the same key, wait for it
StartLLM_Mutant(q, cache) ==
    IF \E s \in Slots : /\ req[s].pc \in {"generate", "backoff"}
                        /\ req[s].memoryCacheKey = q.memoryCacheKey
    THEN Effect([q EXCEPT !.pc = "coalesced"], cache, pendingSaves, computedAt)
    ELSE IF ~apiKey
    THEN FinishCompute(q, cache, DefaultResult)
    ELSE InvokeGenerator(q, cache, 1, 0)

\* result = await callLLM(...)
StartLLM(q, cache) ==
    IF ~apiKey
    THEN FinishCompute(q, cache, DefaultResult)
    ELSE InvokeGenerator(q, cache, 1, 0)

\* no back-fill of the memory cache
Backfill_Mutant(cache, key, value) == cache

\* interpretCache.set(memoryCacheKey, result, 5 * 60 * 1000) after a hit in the store
Backfill(cache, key, value) ==
    LRUSet(cache, InterpretCacheMaxSize, InterpretCacheDefaultTTL, key, value, MemoryTtlMs, now)

\* a row found in the store was stored under the key, no longer than the memory TTL ago
FilledWithinTtl(key) == backfilledAt[key] # Undefined /\ now <= backfilledAt[key] + MemoryTtlMs

\* a generated result was stored under the key, no longer than the memory TTL ago
WithinTtl(key) == computedAt[key] # Undefined /\ now <= computedAt[key] + MemoryTtlMs

\* a step of request r takes effect
Apply(r, e) ==
    /\ req' = [req EXCEPT ![r] = e.q]
    /\ interpretCache' = e.cache
    /\ pendingSaves' = e.saves
    /\ computedAt' = e.computed
    /\ backfilledAt' = e.backfilled

InitPost ==
    /\ ExtIdle
    /\ RLIdle
    /\ RetryIdle
    /\ interpretCache = <<>>
    /\ interpretations = EmptyMap
    /\ pendingSaves = {}
    /\ isSupabaseConfigured \in BOOLEAN
    /\ apiKey \in BOOLEAN
    /\ req = [r \in Slots |-> IdleRequest]
    /\ concurrency = 1
    /\ computedAt = [k \in MemoryKeys |-> Undefined]
    /\ backfilledAt = [k \in MemoryKeys |-> Undefined]

\* POST is called: the rate-limit check, then await request.json()
Arrive(r, client, body) ==
    LET out == checkRateLimit(rateLimitStore, client, InterpretPolicy, now)
        q == [IdleRequest EXCEPT !.body = body, !.allowed = out.result.allowed,
                                 !.issued = /\ body.kind = "ok"
                                            /\ WithinTtl(buildInterpretCacheKey(body.chartId, body.fortune)),
                                 !.afterFill = /\ body.kind = "ok"
                                               /\ FilledWithinTtl(buildInterpretCacheKey(body.chartId, body.fortune))]
    IN
    /\ req[r].pc = "idle"
    /\ r <= concurrency
    /\ \A s \in Slots : s < r => req[s].pc # "idle"
    /\ Cardinality(pendingSaves) < MaxPendingSaves
    /\ rateLimitStore' = out.store
    /\ req' = [req EXCEPT ![r] =
                 IF Rejected(out.result)
                 THEN [q EXCEPT !.pc = "done", !.response = createRateLimitResponse(out.result)]
                 ELSE [q EXCEPT !.pc = "json"]]
    /\ UNCHANGED <<now, rlCall, rlPolicy, winOpen, winCalls>>
    /\ UNCHANGED retryVars
    /\ UNCHANGED extVars
    /\ UNCHANGED <<interpretCache, interpretations, pendingSaves, isSupabaseConfigured, apiKey, computedAt,
                   backfilledAt, concurrency>>

\* request.json() settles: validation, the memory cache, and the call that starts the next tier
BodyParsed(r) ==
    LET q0 == req[r]
        key == buildInterpretCacheKey(q0.body.chartId, q0.body.fortune)
        got == LRUGet(interpretCache, key, now)
        q == [q0 EXCEPT !.memoryCacheKey = key,
                        !.repeat = (q0.issued /\ WithinTtl(key)),
                        !.readAfterFill = (q0.afterFill /\ FilledWithinTtl(key)),
                        !.log = <<IF MemoryHit(got.value) THEN "memory-hit" ELSE "memory-miss">>]
    IN
    /\ q0.pc = "json"
    /\ Apply(r,
         IF q0.body.kind = "invalidJson"
         THEN Effect([q0 EXCEPT !.pc = "done", !.response = ErrorResponse(500)],
                     interpretCache, pendingSaves, computedAt)
         ELSE IF q0.body.kind = "noAstrolabe"
         THEN Effect([q0 EXCEPT !.pc = "done", !.response = ErrorResponse(400)],
                     interpretCache, pendingSaves, computedAt)
         ELSE IF ReadsStore(got.value)
         THEN Effect([q EXCEPT !.pc = "store-read", !.log = Append(q.log, "persistent-read")],
                     got.cache, pendingSaves, computedAt)
         ELSE IF MemoryHit(got.value)
         THEN Effect([q EXCEPT !.pc = "done", !.response = ResultResponse(got.value, "memory")],
                     got.cache, pendingSaves, computedAt)
         ELSE StartLLM(q, got.cache))
    /\ UNCHANGED rlVars
    /\ UNCHANGED retryVars
    /\ UNCHANGED extVars
    /\ UNCHANGED <<interpretations, isSupabaseConfigured, apiKey, concurrency>>

\* await getCachedInterpretation(...) settles with a row, settles without one (no row, or
\* an error, which it turns into success: false), or never settles
StoreReadSettles(r, outcome) ==
    LET q == req[r]
        row == StoreKey(q.body.chartId, q.body.fortune)
    IN
    /\ q.pc = "store-read"
    /\ outcome = "row" => row \in DOMAIN interpretations
    /\ Apply(r,
         IF outcome = "row"
         THEN LET filled == Backfill(interpretCache, q.memoryCacheKey, interpretations[row]) IN
              [Effect([q EXCEPT !.pc = "done", !.log = q.log \o <<"persistent-hit", "memory-set">>,
                                !.backfill = [at |-> now, cache |-> filled],
                                !.response = ResultResponse(interpretations[row], "supabase")],
                      filled, pendingSaves, computedAt)
               EXCEPT !.backfilled = [backfilledAt EXCEPT ![q.memoryCacheKey] = now]]
         ELSE IF outcome = "none"
         THEN StartLLM([q EXCEPT !.log = Append(q.log, "persistent-miss")], interpretCache)
         ELSE Effect([q EXCEPT !.pc = "store-hung"], interpretCache, pendingSaves, computedAt))
    /\ UNCHANGED rlVars
    /\ UNCHANGED retryVars
    /\ UNCHANGED extVars
    /\ UNCHANGED <<interpretations, isSupabaseConfigured, apiKey, concurrency>>

\* one attempt of withRetry around callOpenAIAPI settles
GeneratorSettles(r, outcome) ==
    LET q == req[r] IN
    /\ q.pc = "generate"
    /\ Apply(r,
         IF outcome.kind = "success"
         THEN FinishCompute(q, interpretCache, ParsedResult)
         ELSE IF ShouldThrow(q.attempt, FallbackRetryConfig, outcome.error)
         THEN ModelFailed(q, interpretCache)
         ELSE Effect([q EXCEPT !.pc = "backoff"], interpretCache, pendingSaves, computedAt))
    /\ UNCHANGED rlVars
    /\ UNCHANGED retryVars
    /\ UNCHANGED extVars
    /\ UNCHANGED <<interpretations, isSupabaseConfigured, apiKey, concurrency>>

\* await delay(delayMs) of withRetry resolves
BackoffElapsed(r) ==
    LET q == req[r] IN
    /\ q.pc = "backoff"
    /\ Apply(r,
         IF LoopCondition(NextAttempt(q.attempt), FallbackRetryConfig)
         THEN InvokeGenerator(q, interpretCache, q.model, NextAttempt(q.attempt))
         ELSE ModelFailed(q, interpretCache))
    /\ UNCHANGED rlVars
    /\ UNCHANGED retryVars
    /\ UNCHANGED extVars
    /\ UNCHANGED <<interpretations, isSupabaseConfigured, apiKey, concurrency>>

\* a saveInterpretation call settles: the row is inserted unless the insert fails or a row
\* with the same (chart_id, fortune_scope, fortune_params) exists
SaveSettles(w, ok) ==
    /\ w \in pendingSaves
    /\ pendingSaves' = pendingSaves \ {w}
    /\ interpretations' = IF ok /\ w.key \notin DOMAIN interpretations
                          THEN MapSet(interpretations, w.key, w.value)
                          ELSE interpretations
    /\ UNCHANGED rlVars
    /\ UNCHANGED retryVars
    /\ UNCHANGED extVars
    /\ UNCHANGED <<interpretCache, isSupabaseConfigured, apiKey, req, computedAt, backfilledAt, concurrency>>

\* the response has been sent; the slot takes the next request
Close(r) ==
    /\ req[r].pc = "done"
    /\ req' = [req EXCEPT ![r] = IdleRequest]
    /\ UNCHANGED rlVars
    /\ UNCHANGED retryVars
    /\ UNCHANGED extVars
    /\ UNCHANGED <<interpretCache, interpretations, pendingSaves, isSupabaseConfigured, apiKey, computedAt,
                   backfilledAt, concurrency>>

\* the clock moves on
Tick ==
    /\ now < MaxTicks * TickMs
    /\ now' = now + TickMs
    /\ UNCHANGED <<rateLimitStore, rlCall, rlPolicy, winOpen, winCalls>>
    /\ UNCHANGED retryVars
    /\ UNCHANGED extVars
    /\ UNCHANGED postVars

\* the interval timer of startCacheCleanup fires
CacheCleanupFires ==
    /\ interpretCache' = LRUCleanup(interpretCache, now)
    /\ interpretCache' # interpretCache
    /\ UNCHANGED rlVars
    /\ UNCHANGED retryVars
    /\ UNCHANGED extVars
    /\ UNCHANGED <<interpretations, pendingSaves, isSupabaseConfigured, apiKey, req, computedAt,
                   backfilledAt, concurrency>>

\* the interval timer of startCleanupTimer fires
RateSweepFires ==
    /\ rateLimitStore' = SweepRateLimitStore(rateLimitStore, now)
    /\ rateLimitStore' # rateLimitStore
    /\ UNCHANGED <<now, rlCall, rlPolicy, winOpen, winCalls>>
    /\ UNCHANGED retryVars
    /\ UNCHANGED extVars
    /\ UNCHANGED postVars

Next ==
    \/ \E r \in Slots, body \in RequestBodies : Arrive(r, "unknown", body)
    \/ \E r \in Slots : BodyParsed(r)
    \/ \E r \in Slots, outcome \in {"row", "none", "hang"} : StoreReadSettles(r, outcome)
    \/ \E r \in Slots, outcome \in GeneratorOutcomes : GeneratorSettles(r, outcome)
    \/ \E r \in Slots : BackoffElapsed(r)
    \/ \E w \in pendingSaves, ok \in BOOLEAN : SaveSettles(w, ok)
    \/ \E r \in Slots : Close(r)
    \/ Tick
    \/ CacheCleanupFires
    \/ RateSweepFires

Spec == InitPost /\ [][Next]_vars

\* the tier events of a request, in the order the handler produced them
Events(r) == req[r].log

Occurs(r, event) == \E i \in DOMAIN Events(r) : Events(r)[i] = event

Precedes(r, event, i) == \E j \in 1..(i - 1) : Events(r)[j] = event

\* C3: the rate-limit check comes first in every interpret request: a request for which
\* checkRateLimit answered allowed = false ends with status 429 and a retryAfter, having read
\* or written neither the memory cache nor the persistent store and not having called the
\* generator; whatever tier work a request has done, it did after being allowed.
C3_RejectedDoesNoWork ==
    \A r \in Slots :
        /\ (req[r].pc # "idle" /\ ~req[r].allowed) =>
               /\ req[r].pc = "done"
               /\ req[r].response.status = 429
               /\ req[r].response.retryAfter >= 0
               /\ Events(r) = <<>>
        /\ Events(r) # <<>> => req[r].allowed

\* a request was rejected by the rate limiter while the memory cache held a result
C3_Witness ==
    \E r \in Slots :
        /\ req[r].pc = "done"
        /\ ~req[r].allowed
        /\ req[r].response.status = 429
        /\ interpretCache # <<>>

C5_RepeatServedFromMemory ==
    \A r \in Slots :
        (req[r].pc = "done" /\ req[r].issued) =>
            /\ req[r].response.source = "memory"
            /\ ~Occurs(r, "generator")

\* C5, amended: such a request, when the rate limiter allows it and it reads the memory cache
\* no later than the memory TTL after the result was stored, is answered with source 'memory',
\* and the memory hit is all the tier work it does.
C5_AllowedRepeatServedFromMemory ==
    \A r \in Slots :
        req[r].repeat =>
            /\ req[r].allowed
            /\ req[r].pc = "done"
            /\ req[r].response.status = 200
            /\ req[r].response.source = "memory"
            /\ req[r].response.body = ParsedResult
            /\ Events(r) = <<"memory-hit">>

\* a repeat read the memory cache exactly one memory TTL after the result was generated
C5_Witness ==
    \E r \in Slots :
        /\ req[r].repeat
        /\ req[r].pc = "done"
        /\ req[r].response.source = "memory"
        /\ now = computedAt[req[r].memoryCacheKey] + MemoryTtlMs

\* C6: a read of the persistent store that never completes does not block the request:
\* no request is left waiting for getCachedInterpretation for ever.
C6_StoreNeverBlocks ==
    \A r \in Slots : req[r].pc # "store-hung"

\* C7: a request whose every model failed is answered with an error of status 5xx.
C7_ExhaustionSurfacesFailure ==
    \A r \in Slots :
        (req[r].pc = "done" /\ req[r].exhausted) => req[r].response.status >= 500

\* the process starts while the store holds a row that an earlier process saved
InitWarmStore ==
    /\ ExtIdle
    /\ RLIdle
    /\ RetryIdle
    /\ interpretCache = <<>>
    /\ \E body \in { b \in RequestBodies : b.kind = "ok" } :
          interpretations = MapSet(EmptyMap, StoreKey(body.chartId, body.fortune), ParsedResult)
    /\ pendingSaves = {}
    /\ isSupabaseConfigured = TRUE
    /\ apiKey \in BOOLEAN
    /\ req = [r \in Slots |-> IdleRequest]
    /\ concurrency = 1
    /\ computedAt = [k \in MemoryKeys |-> Undefined]
    /\ backfilledAt = [k \in MemoryKeys |-> Undefined]

SpecWarmStore == InitWarmStore /\ [][Next]_vars

\* the request of slot r found its row in the store: it did not call the generator, it is
\* answered with source 'supabase', and the memory cache as it left it holds the row under
\* the request's key, to expire one memory TTL later
StoreHitBackfills(r) ==
    LET q == req[r]
        i == LRUIndex(q.backfill.cache, q.memoryCacheKey)
    IN
    /\ q.pc = "done"
    /\ Events(r) = <<"memory-miss", "persistent-read", "persistent-hit", "memory-set">>
    /\ q.response.status = 200
    /\ q.response.source = "supabase"
    /\ i # 0
    /\ q.backfill.cache[i].value = q.response.body
    /\ q.backfill.cache[i].expiresAt = q.backfill.at + MemoryTtlMs

\* C25 as stated: a request that misses the memory cache and hits the store back-fills the
\* memory cache with the memory TTL, calls no generator and reports the persistent tier;
\* and a request with the same key issued within the memory TTL of the back-fill is
\* answered with source 'memory'.
C25_StoreHitServesNextFromMemory ==
    \A r \in Slots :
        /\ Occurs(r, "persistent-hit") => StoreHitBackfills(r)
        /\ (req[r].pc = "done" /\ req[r].afterFill) => req[r].response.source = "memory"

\* C25 amended: the same, the later request being one that the rate limiter allows and that
\* reads the memory cache no later than the memory TTL after the back-fill.
C25_StoreHitServesAllowedNextFromMemory ==
    \A r \in Slots :
        /\ Occurs(r, "persistent-hit") => StoreHitBackfills(r)
        /\ req[r].readAfterFill =>
              /\ req[r].allowed
              /\ req[r].pc = "done"
              /\ req[r].response.status = 200
              /\ req[r].response.source = "memory"
              /\ Events(r) = <<"memory-hit">>

\* a request read the memory cache exactly one memory TTL after a back-fill, and hit
C25_Witness ==
    \E r \in Slots :
        /\ req[r].readAfterFill
        /\ req[r].pc = "done"
        /\ req[r].response.source = "memory"
        /\ now = backfilledAt[req[r].memoryCacheKey] + MemoryTtlMs

\* C28: the memory cache and the persistent store hold, and are being sent, only values
\* made from generated text: a request whose every model failed writes to neither tier.
C28_OnlyGeneratedValuesStored ==
    /\ \A i \in DOMAIN interpretCache : interpretCache[i].value = ParsedResult
    /\ \A row \in DOMAIN interpretations : interpretations[row] = ParsedResult
    /\ \A w \in pendingSaves : w.value = ParsedResult
    /\ \A r \in Slots : req[r].exhausted => ~Occurs(r, "memory-set")

(***************************************************************************)
(* The retry classifier, applied to one error at a time                    *)
(***************************************************************************)

\* the HTTP statuses the classified errors carry
StatusCodes == {400, 401, 403, 404, 408, 409, 410, 418, 422, 429,
                451, 499, 500, 501, 502, 503, 504, 511, 598, 599}

\* the errors that carry a status: new RetryableError(m, s), new APIError(m, s, c, retryable),
\* and an Error or a TypeError with a statusCode property
StatusErrors ==
    { RetryableError(s) : s \in StatusCodes }
    \cup { APIError(s, r) : s \in StatusCodes, r \in BOOLEAN }
    \cup { PlainError(s) : s \in StatusCodes }
    \cup { Err("TypeError", s, FALSE, Undefined, <<>>) : s \in StatusCodes }

\* the errors isRetryableError is applied to
ClassifiedErrors == StatusErrors \cup OperationErrors \cup {TimeoutError}

AllIdle ==
    /\ RLIdle
    /\ RetryIdle
    /\ PostIdle
    /\ ExtIdle

InitClassify == AllIdle

\* isRetryableError(error) is called
Classify(error) ==
    /\ probe' = [fn |-> "isRetryableError", arg |-> error, result |-> isRetryableError(error)]
    /\ UNCHANGED <<lru, lruHist, fb, shadow, timers>>
    /\ UNCHANGED rlVars
    /\ UNCHANGED retryVars
    /\ UNCHANGED postVars

NextClassify == \E error \in ClassifiedErrors : Classify(error)

SpecClassify == InitClassify /\ [][NextClassify]_vars

\* statusCode >= 500 || statusCode === 429 || statusCode === 408
RetryableStatus(statusCode) == statusCode >= 500 \/ statusCode = 429 \/ statusCode = 408

\* C11: an error that carries a status is classified retryable exactly when the status
\* is >= 500, 429 or 408, whatever the type of the error.
C11_StatusDecidesRetry ==
    (probe.fn = "isRetryableError" /\ probe.arg.statusCode # Undefined) =>
        (probe.result <=> RetryableStatus(probe.arg.statusCode))

(***************************************************************************)
(* One callOpenAIWithFallback call                                         *)
(***************************************************************************)

\* the values of config.model: process.env.OPENAI_MODEL || 'gpt-4o-mini'
ConfiguredModels == {"gpt-4o-mini", "gpt-3.5-turbo", "gpt-4o"}

\* the errors callOpenAIAPI rejects with: 429, 5xx, another 4xx, an empty response
FallbackErrors == { RateLimitError(2), RetryableError(500), APIError(400, FALSE), APIError(500, TRUE) }

\* how one attempt of withRetry around callOpenAIAPI can settle
FallbackOutcomes ==
    { [kind |-> "success", error |-> NoError] }
    \cup { [kind |-> "failure", error |-> e] : e \in FallbackErrors }
    \cup { [kind |-> "timeout", error |-> TimeoutError] }

\* callOpenAIWithFallback is entered: models is built, lastError is not set.
\* invoked lists the model of every callOpenAIAPI call, outcomes how each call settled.
FallbackEntered(model) ==
    [pc |-> "start", model |-> model, models |-> ModelChain(model), m |-> 0, attempt |-> 0, lastError |-> NoError,
     invoked |-> <<>>, outcomes |-> <<>>, result |-> NoResult]

\* callOpenAIAPI(messages, config, model) is invoked for the model at position m, as attempt n
FbInvoke(f, m, n) ==
    [f EXCEPT !.pc = "attempting", !.m = m, !.attempt = n, !.invoked = Append(f.invoked, f.models[m])]

\* const result = await withRetry(...); return result
FbSucceeded_Mutant(f) ==
    IF f.m < Len(f.models) THEN FbInvoke(f, f.m + 1, 0)
    ELSE [f EXCEPT !.pc = "done", !.result = [kind |-> "return", error |-> NoError, text |-> f.models[f.m]]]

FbSucceeded(f) ==
    [f EXCEPT !.pc = "done", !.result = [kind |-> "return", error |-> NoError, text |-> f.models[f.m]]]

\* catch (error) { lastError = error; continue }, and throw lastError after the loop
FbModelFailed_Mutant(f, error) ==
    IF f.m < Len(f.models) /\ error.cls = "RateLimitError"
    THEN FbInvoke([f EXCEPT !.lastError = error], f.m + 1, 0)
    ELSE [f EXCEPT !.pc = "done", !.lastError = error,
                   !.result = [kind |-> "throw", error |-> error, text |-> ""]]

FbModelFailed(f, error) ==
    IF f.m < Len(f.models)
    THEN FbInvoke([f EXCEPT !.lastError = error], f.m + 1, 0)
    ELSE [f EXCEPT !.pc = "done", !.lastError = error,
                   !.result = [kind |-> "throw", error |-> error, text |-> ""]]

InitFallback ==
    /\ BgIdle
    /\ RLIdle
    /\ RetryIdle
    /\ PostIdle
    /\ probe = [fn |-> "none"]
    /\ lru = [maxSize |-> 0, defaultTTL |-> 0, map |-> <<>>]
    /\ lruHist = [op |-> "none"]
    /\ \E model \in ConfiguredModels : fb = FallbackEntered(model)

\* a step of the call takes effect
FbApply(f) ==
    /\ fb' = f
    /\ UNCHANGED <<probe, lru, lruHist, shadow, timers>>
    /\ UNCHANGED rlVars
    /\ UNCHANGED retryVars
    /\ UNCHANGED postVars

\* for (const model of models): withRetry invokes callOpenAIAPI for the first model
FbStart ==
    /\ fb.pc = "start"
    /\ FbApply(FbInvoke(fb, 1, 0))

\* the attempt settles: withRetry returns, throws, or starts its backoff delay
FbSettle(outcome) ==
    LET f == [fb EXCEPT !.outcomes = Append(fb.outcomes, outcome)] IN
    /\ fb.pc = "attempting"
    /\ FbApply(IF outcome.kind = "success" THEN FbSucceeded(f)
               ELSE IF ShouldThrow(fb.attempt, FallbackRetryConfig, outcome.error)
               THEN FbModelFailed(f, outcome.error)
               ELSE [f EXCEPT !.pc = "waiting"])

\* await delay(delayMs) of withRetry resolves: the next attempt on the same model
FbDelayElapsed ==
    /\ fb.pc = "waiting"
    /\ FbApply(IF LoopCondition(NextAttempt(fb.attempt), FallbackRetryConfig)
               THEN FbInvoke(fb, fb.m, NextAttempt(fb.attempt))
               ELSE FbModelFailed(fb, fb.outcomes[Len(fb.outcomes)].error))

NextFallback ==
    \/ FbStart
    \/ \E outcome \in FallbackOutcomes : FbSettle(outcome)
    \/ FbDelayElapsed

SpecFallback == InitFallback /\ [][NextFallback]_vars

\* how many times callOpenAIAPI was invoked with the model
FbCount(model) == Cardinality({ i \in DOMAIN fb.invoked : fb.invoked[i] = model })

\* the position of a model in the chain
FbPosition(model) == CHOOSE k \in DOMAIN fb.models : fb.models[k] = model

FbRunning == fb.pc \in {"attempting", "waiting", "done"}

\* C13: as soon as an attempt on a model succeeds, callOpenAIWithFallback returns the text of
\* that model: the successful call is the last call made, no later model is invoked.
C13_SuccessShortCircuits ==
    FbRunning =>
        \A i \in DOMAIN fb.outcomes :
            fb.outcomes[i].kind = "success" =>
                /\ i = Len(fb.invoked)
                /\ fb.pc = "done"
                /\ fb.result.kind = "return"
                /\ fb.result.text = fb.invoked[i]

\* the first model of a chain succeeded after a retry and the call returned its text,
\* leaving the later models uninvoked
C13_Witness ==
    /\ FbRunning
    /\ fb.pc = "done"
    /\ fb.result.kind = "return"
    /\ Len(fb.models) >= 2
    /\ Len(fb.invoked) = 2
    /\ fb.result.text = fb.models[1]
    /\ \A k \in 2..Len(fb.models) : FbCount(fb.models[k]) = 0

\* C14: callOpenAIWithFallback throws only when every model of the chain was tried and
\* failed. After a failed attempt the next call is a retry of the same model or the first
\* call of the next model, whatever the failure; the call ends on a failure only at the
\* last model, with that error recorded; a model that succeeds ends the call with its text.
C14_FailsOnlyIfAllFail ==
    FbRunning =>
        /\ (fb.pc = "done" /\ fb.result.kind = "throw") =>
              /\ \A k \in DOMAIN fb.models : FbCount(fb.models[k]) >= 1
              /\ \A i \in DOMAIN fb.outcomes : fb.outcomes[i].kind # "success"
        /\ \A i \in DOMAIN fb.outcomes :
              IF fb.outcomes[i].kind = "success"
              THEN fb.pc = "done" /\ fb.result.kind = "return" /\ fb.result.text = fb.invoked[i]
              ELSE IF i < Len(fb.invoked)
              THEN \/ fb.invoked[i + 1] = fb.invoked[i]
                   \/ /\ FbPosition(fb.invoked[i]) < Len(fb.models)
                      /\ fb.invoked[i + 1] = fb.models[FbPosition(fb.invoked[i]) + 1]
              ELSE \/ fb.pc = "waiting"
                   \/ /\ fb.pc = "done"
                      /\ fb.invoked[i] = fb.models[Len(fb.models)]
                      /\ fb.lastError = fb.outcomes[i].error

\* the last model of a three-model chain succeeded after the first failed fatally and the
\* second ran out of retries
C14_Witness ==
    /\ FbRunning
    /\ Len(fb.models) = 3
    /\ fb.pc = "done"
    /\ fb.result.kind = "return"
    /\ fb.result.text = fb.models[3]
    /\ FbCount(fb.models[1]) = 1
    /\ FbCount(fb.models[2]) = FallbackMaxRetries + 1

\* the error is one withRetry retries: every attempt of a model failing so uses its retries
FbRetried(outcome) == outcome.kind = "failure" /\ isRetryableError(outcome.error)

\* C15: callOpenAIAPI is invoked only with models of the chain, in chain order, at most
\* maxRetries + 1 times per model and |chain| x (maxRetries + 1) times in all; when every
\* model fails the call throws the error of the last call, made on the last model of the
\* chain, and when every failure was a retried one each model was invoked maxRetries + 1 times.
C15_ExhaustionBounded ==
    FbRunning =>
        /\ \A i \in DOMAIN fb.invoked : \E k \in DOMAIN fb.models : fb.invoked[i] = fb.models[k]
        /\ \A i, j \in DOMAIN fb.invoked :
              i < j => FbPosition(fb.invoked[i]) <= FbPosition(fb.invoked[j])
        /\ \A k \in DOMAIN fb.models : FbCount(fb.models[k]) <= FallbackMaxRetries + 1
        /\ Len(fb.invoked) <= Len(fb.models) * (FallbackMaxRetries + 1)
        /\ (fb.pc = "done" /\ fb.result.kind = "throw") =>
              /\ fb.invoked[Len(fb.invoked)] = fb.models[Len(fb.models)]
              /\ fb.result.error = fb.outcomes[Len(fb.outcomes)].error
              /\ fb.result.error = fb.lastError
              /\ (\A i \in DOMAIN fb.outcomes : FbRetried(fb.outcomes[i])) =>
                     \A k \in DOMAIN fb.models : FbCount(fb.models[k]) = FallbackMaxRetries + 1

\* every attempt on every model of a three-model chain failed with a retried error, and
\* the call threw after |chain| x (maxRetries + 1) invocations
C15_Witness ==
    /\ FbRunning
    /\ Len(fb.models) = 3
    /\ fb.pc = "done"
    /\ fb.result.kind = "throw"
    /\ Len(fb.invoked) = Len(fb.models) * (FallbackMaxRetries + 1)
    /\ fb.outcomes[1].error # fb.result.error

\* callOpenAIAPI threw the APIError of a 4xx answer other than 429
ClientError(outcome) ==
    /\ outcome.kind = "failure"
    /\ outcome.error.cls = "APIError"
    /\ outcome.error.statusCode >= 400
    /\ outcome.error.statusCode < 500

C24_ChainShape ==
    fb.pc # "idle" =>
        /\ fb.models[1] = fb.model
        /\ Tail(fb.models) = SelectSeq(MODEL_FALLBACK_ORDER, LAMBDA name : name # fb.model)
        /\ \A i, j \in DOMAIN fb.models : i # j => fb.models[i] # fb.models[j]

\* a finished call whose preferred model is the second of MODEL_FALLBACK_ORDER
C24_Witness ==
    /\ fb.pc = "done"
    /\ fb.model = MODEL_FALLBACK_ORDER[2]
    /\ fb.models = <<MODEL_FALLBACK_ORDER[2], MODEL_FALLBACK_ORDER[1]>>
    /\ Len(fb.invoked) > 0

(***************************************************************************)
(* One LRUCache instance, call by call                                     *)
(***************************************************************************)

\* the largest maxSize an LRUCache of SpecLRU is built with
MaxLruSize == 2

\* the clock of SpecLRU stops here
MaxLruNow == 2

\* the largest ttl, and the largest defaultTTL, of SpecLRU
MaxLruTtl == 2

\* the keys the callers use; the empty string is a string key like any other
LruKeys == {"", "k1", "k2"}

\* the ttl arguments of set; 0 is also what an omitted ttl amounts to in `ttl || this.defaultTTL`
LruTtls == 0..MaxLruTtl

\* the value the callers store
LruValue == [kind |-> "value"]

\* LRUCache.has(key) at time t: the Map it leaves and the boolean it returns
LRUHas(cache, key, t) ==
    LET i == LRUIndex(cache, key) IN
    IF i = 0 THEN [cache |-> cache, value |-> FALSE]
    ELSE IF Expired(cache[i], t) THEN [cache |-> LRURemove(cache, key), value |-> FALSE]
    ELSE [cache |-> cache, value |-> TRUE]

\* the keys the Map holds
LruKeySet(cache) == { cache[i].key : i \in DOMAIN cache }

\* a key was set or read with success: it becomes the most recently used one
Touch(recency, key) == Append(SelectSeq(recency, LAMBDA k : k # key), key)

\* among the keys the Map holds, the one whose latest set or successful get is the oldest
LeastRecent(recency, cache) ==
    LET held == SelectSeq(recency, LAMBDA k : k \in LruKeySet(cache))
    IN IF held = <<>> THEN <<>> ELSE <<held[1]>>

\* new LRUCache(maxSize, defaultTTL): no call made yet
InitLRU ==
    /\ BgIdle
    /\ RLIdle
    /\ RetryIdle
    /\ PostIdle
    /\ probe = [fn |-> "none"]
    /\ fb = [pc |-> "idle"]
    /\ \E size \in 1..MaxLruSize, ttl \in 1..MaxLruTtl :
          lru = [maxSize |-> size, defaultTTL |-> ttl, map |-> <<>>]
    /\ lruHist = [op |-> "new", key |-> "", ttl |-> 0, hit |-> FALSE, present |-> FALSE,
                  full |-> FALSE, expiresAt |-> Undefined, removed |-> {}, oldest |-> <<>>,
                  recency |-> <<>>]

\* a call on the cache returns: the Map it left and what is recorded of the call.
\* present, full, expiresAt and oldest describe the cache as the call found it:
\* whether it held the key, whether it held maxSize entries or more, the expiry of the
\* key's entry, the least recently used key; removed are the keys the call took out.
LruCall(op, key, ttl, hit, map, recency) ==
    /\ lru' = [lru EXCEPT !.map = map]
    /\ lruHist' = [op |-> op, key |-> key, ttl |-> ttl, hit |-> hit,
                   present |-> LRUIndex(lru.map, key) # 0,
                   full |-> Len(lru.map) >= lru.maxSize,
                   expiresAt |-> IF LRUIndex(lru.map, key) # 0
                                 THEN lru.map[LRUIndex(lru.map, key)].expiresAt ELSE Undefined,
                   removed |-> LruKeySet(lru.map) \ LruKeySet(map),
                   oldest |-> LeastRecent(lruHist.recency, lru.map),
                   recency |-> recency]
    /\ UNCHANGED <<probe, fb, shadow, timers>>
    /\ UNCHANGED rlVars
    /\ UNCHANGED retryVars
    /\ UNCHANGED postVars

\* cache.set(key, value, ttl)
LruSetCall(key, ttl) ==
    LruCall("set", key, ttl, FALSE,
            LRUSet(lru.map, lru.maxSize, lru.defaultTTL, key, LruValue, ttl, now),
            Touch(lruHist.recency, key))

\* cache.get(key)
LruGetCall(key) ==
    LET got == LRUGet(lru.map, key, now) IN
    LruCall("get", key, 0, got.value # NoValue, got.cache,
            IF got.value # NoValue THEN Touch(lruHist.recency, key) ELSE lruHist.recency)

\* cache.has(key)
LruHasCall(key) ==
    LET got == LRUHas(lru.map, key, now) IN
    LruCall("has", key, 0, got.value, got.cache, lruHist.recency)

\* cache.delete(key)
LruDeleteCall(key) ==
    LruCall("delete", key, 0, LRUIndex(lru.map, key) # 0, LRURemove(lru.map, key), lruHist.recency)

\* cache.clear()
LruClearCall == LruCall("clear", "", 0, FALSE, <<>>, lruHist.recency)

\* cache.cleanup()
LruCleanupCall == LruCall("cleanup", "", 0, FALSE, LRUCleanup(lru.map, now), lruHist.recency)

\* the clock moves on, between two calls
LruTick ==
    /\ now < MaxLruNow
    /\ now' = now + 1
    /\ lruHist' = [op |-> "tick", key |-> "", ttl |-> 0, hit |-> FALSE, present |-> FALSE,
                   full |-> FALSE, expiresAt |-> Undefined, removed |-> {}, oldest |-> <<>>,
                   recency |-> lruHist.recency]
    /\ UNCHANGED <<probe, lru, fb, shadow, timers>>
    /\ UNCHANGED <<rateLimitStore, rlCall, rlPolicy, winOpen, winCalls>>
    /\ UNCHANGED retryVars
    /\ UNCHANGED postVars

NextLRU ==
    \/ \E key \in LruKeys, ttl \in LruTtls : LruSetCall(key, ttl)
    \/ \E key \in LruKeys : LruGetCall(key)
    \/ \E key \in LruKeys : LruHasCall(key)
    \/ \E key \in LruKeys : LruDeleteCall(key)
    \/ LruClearCall
    \/ LruCleanupCall
    \/ LruTick

SpecLRU == InitLRU /\ [][NextLRU]_vars

\* C17: an LRUCache built with maxSize = M >= 1 never holds more than M entries, whatever
\* calls are made on it and whatever string keys they use.
C17_SizeWithinMax == Len(lru.map) <= lru.maxSize

\* C18: a set of a key the cache does not hold, made when the cache is at capacity, removes
\* exactly one entry: the one whose latest set or successful get is the oldest.
C18_EvictsLeastRecent ==
    (lruHist.op = "set" /\ ~lruHist.present /\ lruHist.full) =>
        /\ lruHist.oldest # <<>>
        /\ lruHist.removed = { lruHist.oldest[1] }

\* C19: set(key, value, ttl) stores expiresAt = now + ttl for every ttl, and get and has
\* report an entry they find exactly while now < expiresAt.
C19_VisibleOnlyBeforeExpiry ==
    /\ lruHist.op = "set" =>
          /\ LRUIndex(lru.map, lruHist.key) # 0
          /\ lru.map[LRUIndex(lru.map, lruHist.key)].expiresAt = now + lruHist.ttl
    /\ (lruHist.op \in {"get", "has"} /\ lruHist.present) =>
          (lruHist.hit <=> now < lruHist.expiresAt)

\* C26: a set of a key the cache holds takes no other entry out, so the entry count stays
\* the same, and leaves the key as the most recently used entry with its new expiry.
C26_ResetKeepsOthers ==
    (lruHist.op = "set" /\ lruHist.present) =>
        /\ lruHist.removed = {}
        /\ lru.map # <<>>
        /\ lru.map[Len(lru.map)].key = lruHist.key
        /\ lru.map[Len(lru.map)].expiresAt =
              now + (IF lruHist.ttl = 0 THEN lru.defaultTTL ELSE lruHist.ttl)

(***************************************************************************)
(* One LRUCache instance with cleanup, next to the same calls made on an   *)
(* instance whose cleanup is never called                                  *)
(***************************************************************************)

\* new LRUCache(maxSize, defaultTTL), twice
InitCleanup ==
    /\ RLIdle
    /\ RetryIdle
    /\ PostIdle
    /\ probe = [fn |-> "none"]
    /\ fb = [pc |-> "idle"]
    /\ timers = NoTimers
    /\ \E size \in 1..MaxLruSize, ttl \in 1..MaxLruTtl :
          lru = [maxSize |-> size, defaultTTL |-> ttl, map |-> <<>>]
    /\ lruHist = [op |-> "new"]
    /\ shadow = [of |-> "lru", map |-> <<>>, hit |-> FALSE]

\* a call made on both instances: the Maps they are left with, what the calls returned
CleanupStep(op, key, ttl, map, hit, refMap, refHit) ==
    /\ lru' = [lru EXCEPT !.map = map]
    /\ lruHist' = [op |-> op, key |-> key, ttl |-> ttl, hit |-> hit]
    /\ shadow' = [of |-> "lru", map |-> refMap, hit |-> refHit]
    /\ UNCHANGED <<probe, fb, timers>>
    /\ UNCHANGED rlVars
    /\ UNCHANGED retryVars
    /\ UNCHANGED postVars

\* cache.set(key, value, ttl) on both
CleanupSet(key, ttl) ==
    CleanupStep("set", key, ttl,
                LRUSet(lru.map, lru.maxSize, lru.defaultTTL, key, LruValue, ttl, now), FALSE,
                LRUSet(shadow.map, lru.maxSize, lru.defaultTTL, key, LruValue, ttl, now), FALSE)

\* cache.get(key) on both
CleanupGet(key) ==
    LET got == LRUGet(lru.map, key, now)
        ref == LRUGet(shadow.map, key, now)
    IN CleanupStep("get", key, 0, got.cache, got.value # NoValue, ref.cache, ref.value # NoValue)

\* cache.has(key) on both
CleanupHas(key) ==
    LET got == LRUHas(lru.map, key, now)
        ref == LRUHas(shadow.map, key, now)
    IN CleanupStep("has", key, 0, got.cache, got.value, ref.cache, ref.value)

\* cache.cleanup() on the first instance only: the Map it found, the number it returned
CleanupCall ==
    /\ lru' = [lru EXCEPT !.map = LRUCleanup(lru.map, now)]
    /\ lruHist' = [op |-> "cleanup", before |-> lru.map,
                   returned |-> Cardinality({ i \in DOMAIN lru.map : Expired(lru.map[i], now) })]
    /\ UNCHANGED <<probe, fb, shadow, timers>>
    /\ UNCHANGED rlVars
    /\ UNCHANGED retryVars
    /\ UNCHANGED postVars

\* the clock moves on, between two calls
CleanupTick ==
    /\ now < MaxLruNow
    /\ now' = now + 1
    /\ lruHist' = [op |-> "tick"]
    /\ UNCHANGED <<probe, lru, fb, shadow, timers>>
    /\ UNCHANGED <<rateLimitStore, rlCall, rlPolicy, winOpen, winCalls>>
    /\ UNCHANGED retryVars
    /\ UNCHANGED postVars

NextCleanup ==
    \/ \E key \in LruKeys, ttl \in LruTtls : CleanupSet(key, ttl)
    \/ \E key \in LruKeys : CleanupGet(key)
    \/ \E key \in LruKeys : CleanupHas(key)
    \/ CleanupCall
    \/ CleanupTick

SpecCleanup == InitCleanup /\ [][NextCleanup]_vars

\* C27: cleanup removes exactly the entries whose time has run out (now >= expiresAt),
\* returns their number and keeps the others, values and order; a second cleanup at the
\* same instant would remove nothing; and every get and has returns what it returns on the
\* instance whose cleanup never ran.
C27_CleanupIsTransparent ==
    /\ lruHist.op = "cleanup" =>
          /\ lru.map = SelectSeq(lruHist.before, LAMBDA e : now < e.expiresAt)
          /\ lruHist.returned = Len(lruHist.before) - Len(lru.map)
          /\ LRUCleanup(lru.map, now) = lru.map
    /\ lruHist.op \in {"get", "has"} => lruHist.hit = shadow.hit

(***************************************************************************)
(* generateCacheKey, applied to one object in two insertion orders         *)
(***************************************************************************)

\* the largest number of properties of an object passed to generateCacheKey
MaxProps == 2

\* the property values are 1..MaxPropValue
MaxPropValue == 2

\* the prefixes the callers pass
KeyPrefixes == {"interpret", "prefix"}

\* the arguments that come before the object: none, a string, a number
LeadingArgs == { <<>>, <<StringArg("natal")>>, <<NumberArg(2026)>> }

\* one own property of an object
KeyProps == [name : { PropNameOrder[i] : i \in DOMAIN PropNameOrder }, value : 1..MaxPropValue]

\* the objects passed to generateCacheKey: up to MaxProps properties of distinct names,
\* in every insertion order
KeyObjects ==
    UNION { { props \in [1..n -> KeyProps] :
                \A i, j \in 1..n : i # j => props[i].name # props[j].name } : n \in 0..MaxProps }

\* the objects that hold the same properties with the same values as props
Reorderings(props) ==
    { other \in KeyObjects :
        /\ Len(other) = Len(props)
        /\ { other[i] : i \in DOMAIN other } = { props[i] : i \in DOMAIN props } }

InitCacheKey == AllIdle

\* generateCacheKey(prefix, ...leading, object) is called twice, the second time with an
\* object of the same properties inserted in another order; the function keeps no state,
\* so one pair of calls is followed per behaviour
GenerateKeys(prefix, leading, props, other) ==
    /\ probe.fn = "none"
    /\ probe' = [fn |-> "generateCacheKey", prefix |-> prefix,
                 args |-> leading \o <<ObjectArg(props)>>,
                 reordered |-> leading \o <<ObjectArg(other)>>,
                 key |-> generateCacheKey(prefix, leading \o <<ObjectArg(props)>>),
                 keyReordered |-> generateCacheKey(prefix, leading \o <<ObjectArg(other)>>)]
    /\ UNCHANGED <<lru, lruHist, fb, shadow, timers>>
    /\ UNCHANGED rlVars
    /\ UNCHANGED retryVars
    /\ UNCHANGED postVars

NextCacheKey ==
    \E prefix \in KeyPrefixes, leading \in LeadingArgs, props \in KeyObjects :
        \E other \in Reorderings(props) : GenerateKeys(prefix, leading, props, other)

SpecCacheKey == InitCacheKey /\ [][NextCacheKey]_vars

\* C20: two objects that hold the same properties with the same values, inserted in
\* different orders, give the same key for the same prefix and the same other arguments,
\* and the key is prefix, ':' and the stringified arguments joined by ':'.
C20_KeyIndependentOfOrder ==
    probe.fn = "generateCacheKey" =>
        /\ probe.key = probe.keyReordered
        /\ probe.key = probe.prefix \o ":"
                         \o JoinColon([i \in DOMAIN probe.args |-> StringifyArg(probe.args[i])])

\* two properties inserted in two different orders, after a leading argument
C20_Witness ==
    /\ probe.fn = "generateCacheKey"
    /\ Len(probe.args) = 2
    /\ Len(probe.args[2].props) >= 2
    /\ probe.args[2].props # probe.reordered[2].props

(***************************************************************************)
(* checkRateLimit with the background sweep, next to the same calls made   *)
(* on a store that is never swept                                          *)
(***************************************************************************)

InitSweep ==
    /\ now = 0
    /\ rlPolicy \in Policies
    /\ rateLimitStore = EmptyMap
    /\ rlCall = NoCall
    /\ winOpen = [k \in AllKeys |-> Undefined]
    /\ winCalls = [k \in AllKeys |-> 0]
    /\ RetryIdle
    /\ PostIdle
    /\ probe = [fn |-> "none"]
    /\ lru = [maxSize |-> 0, defaultTTL |-> 0, map |-> <<>>]
    /\ lruHist = [op |-> "none"]
    /\ fb = [pc |-> "idle"]
    /\ timers = NoTimers
    /\ shadow = [of |-> "rateLimitStore", store |-> EmptyMap, had |-> FALSE, result |-> NoCall]

\* one call of checkRateLimit, and the same call at the same instant on the unswept store
SweepCheck(identifier, config) ==
    LET key == RateLimitKey(config.keyPrefix, identifier)
        out == checkRateLimit(rateLimitStore, identifier, config, now)
        ref == checkRateLimit(shadow.store, identifier, config, now)
    IN
    /\ rateLimitStore' = out.store
    /\ rlCall' = [kind |-> "call", key |-> key, config |-> config, at |-> now,
                  had |-> key \in DOMAIN rateLimitStore, result |-> out.result]
    /\ shadow' = [of |-> "rateLimitStore", store |-> ref.store,
                  had |-> key \in DOMAIN shadow.store, result |-> ref.result]
    /\ UNCHANGED <<now, rlPolicy, winOpen, winCalls>>
    /\ UNCHANGED <<probe, lru, lruHist, fb, timers>>
    /\ UNCHANGED retryVars
    /\ UNCHANGED postVars

\* the interval timer of startCleanupTimer fires; the unswept store is left alone
SweepFires ==
    /\ rateLimitStore' = SweepRateLimitStore(rateLimitStore, now)
    /\ rateLimitStore' # rateLimitStore
    /\ UNCHANGED <<now, rlCall, rlPolicy, winOpen, winCalls>>
    /\ UNCHANGED <<probe, lru, lruHist, fb, shadow, timers>>
    /\ UNCHANGED retryVars
    /\ UNCHANGED postVars

NextSweep ==
    \/ \E id \in Identities : SweepCheck(id, rlPolicy)
    \/ RLTick
    \/ SweepFires

SpecSweep == InitSweep /\ [][NextSweep]_vars

\* C21: every checkRateLimit call returns the same result (allowed, remaining, resetTime,
\* retryAfter) as the same call in the run where the sweep never runs.
C21_SweepChangesNoDecision ==
    rlCall.kind = "call" => rlCall.result = shadow.result

\* a call on a key whose record the sweep had removed and the unswept store still holds
C21_Witness ==
    /\ rlCall.kind = "call"
    /\ ~rlCall.had
    /\ shadow.had
    /\ rlCall.result.allowed

(***************************************************************************)
(* Two interpret requests handled at once                                  *)
(***************************************************************************)

\* the server handles two requests at a time; the clock stands still while they overlap
InitOverlap ==
    /\ ExtIdle
    /\ RLIdle
    /\ RetryIdle
    /\ interpretCache = <<>>
    /\ interpretations = EmptyMap
    /\ pendingSaves = {}
    /\ isSupabaseConfigured \in BOOLEAN
    /\ apiKey \in BOOLEAN
    /\ req = [r \in Slots |-> IdleRequest]
    /\ concurrency = 2
    /\ computedAt = [k \in MemoryKeys |-> Undefined]
    /\ backfilledAt = [k \in MemoryKeys |-> Undefined]

NextOverlap ==
    \/ \E r \in Slots, body \in RequestBodies : Arrive(r, "unknown", body)
    \/ \E r \in Slots : BodyParsed(r)
    \/ \E r \in Slots, outcome \in {"row", "none", "hang"} : StoreReadSettles(r, outcome)
    \/ \E r \in Slots, outcome \in GeneratorOutcomes : GeneratorSettles(r, outcome)
    \/ \E r \in Slots : BackoffElapsed(r)
    \/ \E w \in pendingSaves, ok \in BOOLEAN : SaveSettles(w, ok)
    \/ \E r \in Slots : Close(r)

SpecOverlap == InitOverlap /\ [][NextOverlap]_vars

\* the request of slot r has missed both tiers that are in use
MissedBothTiers(r) ==
    /\ Occurs(r, "memory-miss")
    /\ isSupabaseConfigured => Occurs(r, "persistent-miss")

\* C22: a request that has missed the memory cache and the persistent store invokes the
\* generator, whatever another request with the same key is doing: nothing makes it wait
\* for, or share, the other request's generator call.
C22_NoCoalescing ==
    \A r \in Slots :
        (req[r].pc # "idle" /\ req[r].body.kind = "ok" /\ MissedBothTiers(r) /\ apiKey) =>
            Occurs(r, "generator")

\* two admitted requests with the same key, both past a miss of the memory cache and of the
\* persistent store, both with a generator call in flight
C22_Witness ==
    /\ isSupabaseConfigured
    /\ \A r \in {1, 2} :
          /\ req[r].pc = "generate"
          /\ req[r].allowed
          /\ Occurs(r, "memory-miss")
          /\ Occurs(r, "persistent-miss")
          /\ Occurs(r, "generator")
    /\ req[1].memoryCacheKey = req[2].memoryCacheKey

(***************************************************************************)
(* generateCacheKey, applied to two argument lists                         *)
(***************************************************************************)

\* the largest number of string arguments after the prefix
MaxStringArgs == 2

\* the texts of the string arguments; two of them hold the separator
ArgTexts == {"a", "b", "a:b", "b:a"}

\* the argument lists of SpecKeyPairs: up to MaxStringArgs strings, or one object with a
\* numeric property, or one object with a nested object
PairedArgs ==
    UNION { [1..n -> { StringArg(text) : text \in ArgTexts }] : n \in 1..MaxStringArgs }
    \cup { <<ObjectArg(<<[name |-> "a", value |-> v]>>)>> : v \in 1..MaxPropValue }
    \cup { <<ObjectArg(<<[name |-> "a", object |-> <<[name |-> k, value |-> v]>>]>>)>> :
             k \in {"a", "b"}, v \in 1..MaxPropValue }

InitKeyPairs == AllIdle

\* generateCacheKey is called with the same prefix for two argument lists
GenerateKeyPair(prefix, first, second) ==
    /\ probe.fn = "none"
    /\ probe' = [fn |-> "generateCacheKey twice", prefix |-> prefix,
                 first |-> first, second |-> second,
                 firstKey |-> generateCacheKey(prefix, first),
                 secondKey |-> generateCacheKey(prefix, second)]
    /\ UNCHANGED <<lru, lruHist, fb, shadow, timers>>
    /\ UNCHANGED rlVars
    /\ UNCHANGED retryVars
    /\ UNCHANGED postVars

NextKeyPairs ==
    \E prefix \in KeyPrefixes, first \in PairedArgs, second \in PairedArgs :
        GenerateKeyPair(prefix, first, second)

SpecKeyPairs == InitKeyPairs /\ [][NextKeyPairs]_vars

\* C29: for the same prefix, two argument lists that differ give different keys.
C29_DifferentArgsDifferentKeys ==
    (probe.fn = "generateCacheKey twice" /\ probe.first # probe.second) =>
        probe.firstKey # probe.secondKey

(***************************************************************************)
(* The cleanup interval timer of the cache module                          *)
(***************************************************************************)

\* setInterval is called at most this many times
MaxTimersCreated == 3

\* startCacheCleanup() that does not look at cleanupInterval first
startCacheCleanup_Mutant(t) ==
    [t EXCEPT !.cleanupInterval = t.created + 1, !.active = t.active \cup {t.created + 1},
              !.created = t.created + 1]

\* startCacheCleanup(): setInterval returns a timer no earlier call returned
startCacheCleanup(t) ==
    IF t.cleanupInterval # 0 THEN t
    ELSE [t EXCEPT !.cleanupInterval = t.created + 1, !.active = t.active \cup {t.created + 1},
                   !.created = t.created + 1]

\* stopCacheCleanup()
stopCacheCleanup(t) ==
    IF t.cleanupInterval # 0
    THEN [t EXCEPT !.active = t.active \ {t.cleanupInterval}, !.cleanupInterval = 0]
    ELSE t

\* the module is loaded, startCacheCleanup has not been called yet
InitTimers ==
    /\ RLIdle
    /\ RetryIdle
    /\ PostIdle
    /\ ExtIdle

\* what a call on the timer leaves, with the call recorded
TimerCall(call, t) ==
    /\ timers' = [t EXCEPT !.call = call, !.before = timers.active]
    /\ UNCHANGED <<probe, lru, lruHist, fb, shadow>>
    /\ UNCHANGED rlVars
    /\ UNCHANGED retryVars
    /\ UNCHANGED postVars

StartCacheCleanup ==
    /\ startCacheCleanup(timers).created <= MaxTimersCreated
    /\ TimerCall("start", startCacheCleanup(timers))

StopCacheCleanup == TimerCall("stop", stopCacheCleanup(timers))

\* an interval timer that is not cleared fires: the callback cleans interpretCache and
\* fortuneCache, and nothing in the repository ever writes to fortuneCache
CleanupTimerFires(timer) ==
    /\ timer \in timers.active
    /\ interpretCache' = LRUCleanup(interpretCache, now)
    /\ timers' = [timers EXCEPT !.call = "fire", !.before = timers.active]
    /\ UNCHANGED <<probe, lru, lruHist, fb, shadow>>
    /\ UNCHANGED rlVars
    /\ UNCHANGED retryVars
    /\ UNCHANGED <<interpretations, pendingSaves, isSupabaseConfigured, apiKey, req, computedAt,
                   backfilledAt, concurrency>>

\* a handler stores a result in interpretCache
TimersCacheSet(key) ==
    /\ interpretCache' = LRUSet(interpretCache, InterpretCacheMaxSize, InterpretCacheDefaultTTL,
                                key, ParsedResult, MemoryTtlMs, now)
    /\ timers' = [timers EXCEPT !.call = "set", !.before = timers.active]
    /\ UNCHANGED <<probe, lru, lruHist, fb, shadow>>
    /\ UNCHANGED rlVars
    /\ UNCHANGED retryVars
    /\ UNCHANGED <<interpretations, pendingSaves, isSupabaseConfigured, apiKey, req, computedAt,
                   backfilledAt, concurrency>>

\* the clock moves on
TimersTick ==
    /\ now < MaxTicks * TickMs
    /\ now' = now + TickMs
    /\ timers' = [timers EXCEPT !.call = "tick", !.before = timers.active]
    /\ UNCHANGED <<rateLimitStore, rlCall, rlPolicy, winOpen, winCalls>>
    /\ UNCHANGED <<probe, lru, lruHist, fb, shadow>>
    /\ UNCHANGED retryVars
    /\ UNCHANGED postVars

NextTimers ==
    \/ StartCacheCleanup
    \/ StopCacheCleanup
    \/ \E timer \in 1..MaxTimersCreated : CleanupTimerFires(timer)
    \/ \E key \in MemoryKeys : TimersCacheSet(key)
    \/ TimersTick

SpecTimers == InitTimers /\ [][NextTimers]_vars

\* C30: at most one cleanup interval timer is active. A start that finds a timer active
\* creates no second one, a stop leaves none active, and a start that finds none active
\* leaves exactly one, a timer that was not active before.
C30_AtMostOneTimer ==
    /\ Cardinality(timers.active) <= 1
    /\ (timers.call = "start" /\ timers.before # {}) => timers.active = timers.before
    /\ timers.call = "stop" => timers.active = {}
    /\ (timers.call = "start" /\ timers.before = {}) =>
          /\ Cardinality(timers.active) = 1
          /\ timers.active = {timers.created}
          /\ timers.active = {timers.cleanupInterval}

\* a start after a stop has created a timer again
C30_Witness ==
    /\ timers.call = "start"
    /\ timers.before = {}
    /\ timers.created >= 2
    /\ Cardinality(timers.active) = 1

====
